---- MODULE Spec2Model ----
(***************************************************************************)
(* A model of the mq session engine (src/mq-template.cpp): the foreground  *)
(* command dispatcher 'serve', the command handlers, the receive engine    *)
(* 'doReceive', the consumer threads started by 'consumeHandler', and the  *)
(* three mutexes of 'Shared'.                                              *)
(*                                                                         *)
(* Every thread has a program counter pc[th].  Thread 0 is the thread that *)
(* runs 'serve'; threads 1..MaxThreads run 'consume'.  A step is one       *)
(* access to shared state (a mutex, a field of 'Shared', the queue, stdout *)
(* or stderr) together with the thread-local code that follows it.         *)
(*                                                                         *)
(* Spec is the session with the debug option off, DebugSpec with it on.    *)
(***************************************************************************)
EXTENDS Integers, Sequences, FiniteSets, TLC

\* ------------------------------------------------------------------ bounds
MaxCmds    == 2   \* verbs with a handler that the input holds (the verb that
                  \* ends the loop, or the end of input, comes after them)
MaxThreads == 2   \* threads pthread_create can start before it fails (EAGAIN)
MaxFaults  == 1   \* injected service faults (hard failures, partial writes);
                  \* transient interruptions (EINTR) are not counted

\* The queue's attributes (mq_getattr) and the messages of the model.
Attr     == [mq_maxmsg |-> 2, mq_msgsize |-> 1]
QueueCap == Attr.mq_maxmsg
MsgSize  == Attr.mq_msgsize

\* --------------------------------------------------------- program constants
MainThread                 == 0   \* the thread running serve
FAIL_RECEIVE               == 1
FAIL_WRITE                 == 2
FAIL_ALLOC                 == 3
FAIL_INTERRUPTED_OR_CLOSED == 4
EAGAIN                     == 11  \* pthread_create's error return

Tasks   == 1..MaxThreads
Threads == {MainThread} \cup Tasks

Msgs     == {<<0, <<"x">>>>, <<1, <<>>>>}    \* <<priority, payload>>
NoMsg    == <<>>

Handled == {"send", "receive", "consume", "count", "msgsize", "maxmsg"}
Verbs   == Handled \cup {"close", "bogus"}

VARIABLES
    pc,            \* pc[th]: where thread th is
    msg,           \* msg[th]: the message th is sending or has received
    written,       \* written[th]: doReceive's loop variable 'written'
    rc,            \* rc[th]: the code th is about to return / last returned
    errno,         \* errno[th]: the error of th's last failed mq_receive
    diag,          \* diag[th]: the diagnostic th is about to write
    line,          \* the stdout line the foreground handler is about to write
    mutex,         \* mutex[m]: the set (of at most one) thread holding m
    stopped,       \* Shared::stopped
    consumerThreadExists,   \* Shared::consumerThreadExists
    consumerThread,         \* Shared::consumerThread (0: never assigned)
    queue,         \* the queue's messages in the order mq_receive returns them
    queueOpen,     \* the descriptor Shared::queue is open
    access,        \* how the descriptor was opened: "rw", "ro" or "wo"
    stdout,        \* what was written to fd 1, one entry per write
    stderr,        \* the diagnostics written, one entry per line
    input,         \* the commands read from stdin so far (close excepted)
    results,       \* the handlers' return codes, in dispatch order
    commandResult, \* serve's commandResult
    closeResult,   \* serve's closeResult (-2: closeHandler has not returned)
    exitCode,      \* serve's return value (-2: serve has not returned)
    closeHandlerRuns,  \* how many times closeHandler was entered
    mqCloseCalls,      \* how many times mq_close was called
    nthreads,      \* how many threads pthread_create has started
    joined,        \* the threads pthread_join has returned for
    destroyed,     \* ~Shared has run
    blockedAtClose,\* the tasks that were blocked in mq_receive when closeHandler was entered
    initialQueue,  \* the queue's messages when the session started
    faults,        \* how many faults were injected
    debug,         \* Shared::options.debug
    priority,      \* doReceive's 'priority', in decimal digits
    msgSize,       \* doReceive's 'msgSize', in decimal digits
    numbersBegin   \* doReceive's 'numbersBegin' as <<its offset from
                   \* bufferBegin>>, <<>> before it is computed

thrVars   == <<pc, msg, written, rc, errno, diag, line>>
shVars    == <<mutex, stopped, consumerThreadExists, consumerThread>>
qVars     == <<queue, queueOpen, access>>
ioVars    == <<stdout, stderr>>
serveVars == <<input, results, commandResult, closeResult, exitCode>>
histVars  == <<closeHandlerRuns, mqCloseCalls, nthreads, joined, destroyed,
              blockedAtClose, initialQueue>>
otherVars == <<debug, priority, msgSize, numbersBegin>>
vars == <<thrVars, shVars, qVars, ioVars, serveVars, histVars, faults,
          otherVars>>

\* ------------------------------------------------------------------ helpers

\* The result of mq_send on a priority queue: after every message of the same
\* or a higher priority.
RECURSIVE Enqueue(_, _)
Enqueue(q, m) ==
    IF q = <<>> THEN <<m>>
    ELSE IF Head(q)[1] >= m[1] THEN <<Head(q)>> \o Enqueue(Tail(q), m)
    ELSE <<m>> \o q

\* SizeBase10: the number of characters of a non-negative number in base ten.
SizeBase10(n) == IF n < 10 THEN 1 ELSE IF n < 100 THEN 2 ELSE 3

\* numbersExpectedSize: the width of "<priority> <size> ".
NumbersSize(m) == SizeBase10(m[1]) + 1 + SizeBase10(Len(m[2])) + 1

\* outputSize: prefix, payload and newline.
OutputSize(m) == NumbersSize(m) + Len(m[2]) + 1

\* Lock::Lock(mutex, lockOnInit): acquires unless lockOnInit is false.
Lock(th, m, lockOnInit) ==
    IF lockOnInit
    THEN /\ mutex[m] = {}
         /\ mutex' = [mutex EXCEPT ![m] = {th}]
    ELSE mutex' = mutex

\* Lock::~Lock / Lock::release: unlocks only when this Lock is holding.
Release(th, ms) ==
    mutex' = [m \in DOMAIN mutex |->
                 IF m \in ms THEN mutex[m] \ {th} ELSE mutex[m]]

CanFault == faults < MaxFaults
Fault    == faults' = faults + 1
NoFault  == faults' = faults

Goto(th, l) == pc' = [pc EXCEPT ![th] = l]

Readable == queueOpen /\ access \in {"rw", "ro"}
Writable == queueOpen /\ access \in {"rw", "wo"}

\* ------------------------------------------------------------------- Init
InitSession ==
    /\ pc = [th \in Threads |-> IF th = MainThread THEN "loop" ELSE "none"]
    /\ msg = [th \in Threads |-> NoMsg]
    /\ written = [th \in Threads |-> 0]
    /\ rc = [th \in Threads |-> 0]
    /\ errno = [th \in Threads |-> "none"]
    /\ diag = [th \in Threads |-> "none"]
    /\ line = <<>>
    /\ mutex = [m \in {"stoppedMutex", "stdoutMutex", "stderrMutex"} |-> {}]
    /\ stopped = FALSE
    /\ consumerThreadExists = FALSE
    /\ consumerThread = 0
    /\ queue \in {<<>>, <<<<0, <<"x">>>>>>}
    /\ initialQueue = queue
    /\ queueOpen = TRUE
    /\ access \in {"rw", "ro", "wo"}
    /\ stdout = <<>>
    /\ stderr = IF debug THEN <<"debug">> ELSE <<>>
    /\ input = <<>>
    /\ results = <<>>
    /\ commandResult = 0
    /\ closeResult = -2
    /\ exitCode = -2
    /\ closeHandlerRuns = 0
    /\ mqCloseCalls = 0
    /\ nthreads = 0
    /\ joined = {}
    /\ destroyed = FALSE
    /\ blockedAtClose = {}
    /\ faults = 0

\* The session model leaves the formatting of the prefix aside: the three
\* variables of it keep these values.
PrefixIdle == priority = <<0>> /\ msgSize = <<0>> /\ numbersBegin = <<>>

Init == debug = FALSE /\ PrefixIdle /\ InitSession

\* The same session with the debug option on.
InitDebug ==
    /\ debug = TRUE
    /\ PrefixIdle
    /\ InitSession
    /\ access = "rw"
    /\ queue = <<>>

\* ------------------------------------------------- returning to the dispatcher

\* (mutant) a failed handler makes serve return at once, skipping closeHandler
AfterHandler_return(code) == IF code # 0 THEN "join" ELSE "loop"

\* (mutant) the loop goes on after a handler failed
AfterHandler_continue(code) == "loop"

\* HANDLE_COMMAND: a handler returned 'code' to serve's loop.  A non-zero
\* code is remembered in commandResult and ends the loop.
AfterHandler(code) == IF code # 0 THEN "close_lock" ELSE "loop"

HandlerReturns(code) ==
    /\ results' = Append(results, code)
    /\ commandResult' = IF code # 0 THEN code ELSE commandResult
    /\ rc' = [rc EXCEPT ![MainThread] = 0]

\* doReceive returned 'code' in thread th.  In the foreground the caller is
\* receiveHandler, which calls again on FAIL_INTERRUPTED_OR_CLOSED and returns
\* anything else; in a consumer thread the caller is consume's loop.
receiveHandler(code) ==
    IF code = FAIL_INTERRUPTED_OR_CLOSED THEN "recv_call" ELSE AfterHandler(code)

\* (mutant) the retryable outcome ends the thread without a look at the flag
consume_stop_on_retry(code) ==
    IF code # 0 THEN "stopped" ELSE "recv_call"

consume(code) ==
    IF code = FAIL_INTERRUPTED_OR_CLOSED THEN "consume_lock"
    ELSE IF code # 0 THEN "stopped"
    ELSE "recv_call"

DoReceiveReturns(th, code) ==
    /\ Goto(th, IF th = MainThread THEN receiveHandler(code) ELSE consume(code))
    /\ IF th = MainThread /\ code # FAIL_INTERRUPTED_OR_CLOSED
       THEN HandlerReturns(code)
       ELSE /\ rc' = [rc EXCEPT ![th] = code]
            /\ UNCHANGED <<results, commandResult>>

\* ---------------------------------------------------------------- serve

\* while (std::cin >> chunk): read the next verb and dispatch on it.  The
\* end of input and the verb close leave the loop the same way and are not
\* recorded in 'input'.
serve_read ==
    /\ pc[MainThread] = "loop"
    /\ \E v \in Verbs \cup {"EOF"} :
         /\ (v \in Handled) => Len(input) < MaxCmds
         /\ input' = IF v \in {"EOF", "close"} THEN input
                      ELSE Append(input, <<v>>)
         /\ Goto(MainThread,
                 CASE v = "send"    -> "send_parse"
                   [] v = "receive" -> "recv_call"
                   [] v = "consume" -> "consume_mark"
                   [] v = "count"   -> "count_q"
                   [] v = "msgsize" -> "msgsize_q"
                   [] v = "maxmsg"  -> "maxmsg_q"
                   [] v = "bogus"   -> "diag_lock"
                   [] OTHER         -> "close_lock")
         /\ diag' = IF v = "bogus"
                    THEN [diag EXCEPT ![MainThread] = "Unknown command"]
                    ELSE diag
         /\ rc' = IF v = "bogus" THEN [rc EXCEPT ![MainThread] = 1] ELSE rc
    /\ UNCHANGED <<msg, written, errno, line, shVars, qVars, otherVars, ioVars, results,
                   commandResult, closeResult, exitCode, histVars, faults>>

\* A handler's diagnostic under Lock(stderrMutex, consumerThreadExists).
diagnostic_lock ==
    /\ pc[MainThread] = "diag_lock"
    /\ Lock(MainThread, "stderrMutex", consumerThreadExists)
    /\ Goto(MainThread, "diag_w")
    /\ UNCHANGED <<msg, written, rc, errno, diag, line, stopped,
                   consumerThreadExists, consumerThread, qVars, otherVars, ioVars,
                   serveVars, histVars, faults>>

\* (mutant) the handler returns its code without writing the diagnostic
diagnostic_write_silent ==
    /\ pc[MainThread] = "diag_w"
    /\ Release(MainThread, {"stderrMutex"})
    /\ diag' = [diag EXCEPT ![MainThread] = "none"]
    /\ HandlerReturns(rc[MainThread])
    /\ Goto(MainThread, AfterHandler(rc[MainThread]))
    /\ UNCHANGED <<msg, written, errno, line, stopped,
                   consumerThreadExists, consumerThread, qVars, otherVars, ioVars, input,
                   closeResult, exitCode, histVars, faults>>

\* The write of the diagnostic, the end of the Lock's scope and the return of
\* the handler's code to the dispatcher.
diagnostic_write ==
    /\ pc[MainThread] = "diag_w"
    /\ stderr' = Append(stderr, diag[MainThread])
    /\ Release(MainThread, {"stderrMutex"})
    /\ diag' = [diag EXCEPT ![MainThread] = "none"]
    /\ HandlerReturns(rc[MainThread])
    /\ Goto(MainThread, AfterHandler(rc[MainThread]))
    /\ UNCHANGED <<msg, written, errno, line, stopped,
                   consumerThreadExists, consumerThread, qVars, otherVars, stdout, input,
                   closeResult, exitCode, histVars, faults>>

\* A handler's stdout line under Lock(stdoutMutex, consumerThreadExists).
output_lock ==
    /\ pc[MainThread] = "out_lock"
    /\ Lock(MainThread, "stdoutMutex", consumerThreadExists)
    /\ Goto(MainThread, "out_w")
    /\ UNCHANGED <<msg, written, rc, errno, diag, line, stopped,
                   consumerThreadExists, consumerThread, qVars, otherVars, ioVars,
                   serveVars, histVars, faults>>

output_write ==
    /\ pc[MainThread] = "out_w"
    /\ stdout' = Append(stdout, line)
    /\ Release(MainThread, {"stdoutMutex"})
    /\ line' = <<>>
    /\ msg' = [msg EXCEPT ![MainThread] = NoMsg]
    /\ HandlerReturns(0)
    /\ Goto(MainThread, AfterHandler(0))
    /\ UNCHANGED <<written, errno, diag, stopped,
                   consumerThreadExists, consumerThread, qVars, otherVars, stderr, input,
                   closeResult, exitCode, histVars, faults>>

\* ------------------------------------------------------------ sendHandler

\* (mutant) a negative size returns the code of a failed mq_send
SendValidationFailures_dup ==
    {<<1, "Unable to read message priority">>,
     <<2, "Unable to read message size">>,
     <<3, "Messages must have a non-negative size">>,
     <<5, "Unable to read from input all of the message">>}

\* The validation failures of sendHandler: the code returned and the
\* diagnostic written.
SendValidationFailures ==
    {<<1, "Unable to read message priority">>,
     <<2, "Unable to read message size">>,
     <<4, "Messages must have a non-negative size">>,
     <<5, "Unable to read from input all of the message">>}

\* Reading priority, size and payload from stdin: one of the four validation
\* failures, or a message.
sendHandler_read ==
    /\ pc[MainThread] = "send_parse"
    /\ \/ \E f \in SendValidationFailures :
            /\ rc' = [rc EXCEPT ![MainThread] = f[1]]
            /\ diag' = [diag EXCEPT ![MainThread] = f[2]]
            /\ Goto(MainThread, "diag_lock")
            /\ UNCHANGED <<msg, input>>
       \/ \E m \in Msgs :
            /\ msg' = [msg EXCEPT ![MainThread] = m]
            /\ input' = [input EXCEPT ![Len(input)] = <<"send", m>>]
            /\ Goto(MainThread, "send_mq")
            /\ UNCHANGED <<rc, diag>>
    /\ UNCHANGED <<written, errno, line, shVars, qVars, otherVars, ioVars, results,
                   commandResult, closeResult, exitCode, histVars, faults>>

\* (mutant) a failed mq_send is acknowledged like a successful one
sendHandler_mq_send_ack_failure ==
    /\ pc[MainThread] = "send_mq"
    /\ \/ /\ Writable /\ Len(msg[MainThread][2]) <= MsgSize
          /\ Len(queue) < QueueCap
          /\ queue' = Enqueue(queue, msg[MainThread])
          /\ NoFault
       \/ /\ \/ ~Writable /\ NoFault
             \/ Len(msg[MainThread][2]) > MsgSize /\ NoFault
             \/ CanFault /\ Fault
          /\ UNCHANGED queue
    /\ line' = <<"ack", Len(msg[MainThread][2])>>
    /\ Goto(MainThread, "out_lock")
    /\ UNCHANGED <<msg, written, rc, errno, diag, shVars, queueOpen, access, otherVars,
                   ioVars, serveVars, histVars>>

\* for (;;) mq_send: success leaves the loop, EINTR goes round again, any
\* other error is reported and returned as 3.  A full queue blocks the call.
sendHandler_mq_send ==
    /\ pc[MainThread] = "send_mq"
    /\ \/ /\ Writable /\ Len(msg[MainThread][2]) <= MsgSize
          /\ Len(queue) < QueueCap
          /\ queue' = Enqueue(queue, msg[MainThread])
          /\ line' = <<"ack", Len(msg[MainThread][2])>>
          /\ Goto(MainThread, "out_lock")
          /\ NoFault
          /\ UNCHANGED <<rc, diag>>
       \/ /\ Writable                                \* EINTR: go round again
          /\ NoFault
          /\ UNCHANGED <<pc, queue, line, rc, diag>>
       \/ /\ \/ ~Writable /\ NoFault                 \* EBADF
             \/ Len(msg[MainThread][2]) > MsgSize /\ NoFault   \* EMSGSIZE
             \/ CanFault /\ Fault
          /\ rc' = [rc EXCEPT ![MainThread] = 3]
          /\ diag' = [diag EXCEPT ![MainThread] = "Unable to send message"]
          /\ Goto(MainThread, "diag_lock")
          /\ UNCHANGED <<queue, line>>
    /\ UNCHANGED <<msg, written, errno, shVars, queueOpen, access, otherVars, ioVars,
                   serveVars, histVars>>

\* ------------------------------------------- count, msgsize, maxmsg handlers

\* mq_getattr, then the report; countHandler writes its diagnostic without a
\* Lock, the other two under Lock(stderrMutex, consumerThreadExists).
attrHandler(at, name, value, errLabel) ==
    /\ pc[MainThread] = at
    /\ \/ /\ queueOpen
          /\ line' = <<name, value>>
          /\ Goto(MainThread, "out_lock")
          /\ NoFault
          /\ UNCHANGED <<rc, diag>>
       \/ /\ CanFault /\ Fault
          /\ rc' = [rc EXCEPT ![MainThread] = -1]
          /\ diag' = [diag EXCEPT ![MainThread] = "Unable to get queue attributes"]
          /\ Goto(MainThread, errLabel)
          /\ UNCHANGED line
    /\ UNCHANGED <<msg, written, errno, shVars, qVars, otherVars, ioVars, serveVars,
                   histVars>>

\* (mutant) count reports the queue's capacity
countHandler_capacity == attrHandler("count_q", "count", QueueCap, "diag_w")

countHandler   == attrHandler("count_q", "count", Len(queue), "diag_w")
msgsizeHandler == attrHandler("msgsize_q", "msgsize", MsgSize, "diag_lock")
maxmsgHandler  == attrHandler("maxmsg_q", "maxmsg", QueueCap, "diag_lock")

\* ---------------------------------------------------------- consumeHandler

\* sigaction(SIGUSR1, no-op); shared.consumerThreadExists = true.
consumeHandler_mark ==
    /\ pc[MainThread] = "consume_mark"
    /\ consumerThreadExists' = TRUE
    /\ Goto(MainThread, "consume_create")
    /\ UNCHANGED <<msg, written, rc, errno, diag, line, mutex, stopped,
                   consumerThread, qVars, otherVars, ioVars, serveVars, histVars, faults>>

\* (mutant) a failed pthread_create leaves the flag set
consumeHandler_create_noreset ==
    /\ pc[MainThread] = "consume_create"
    /\ \/ /\ nthreads < MaxThreads
          /\ nthreads' = nthreads + 1
          /\ consumerThread' = nthreads + 1
          /\ pc' = [pc EXCEPT ![MainThread] = AfterHandler(0),
                              ![nthreads + 1] = "recv_call"]
          /\ HandlerReturns(0)
          /\ NoFault
          /\ UNCHANGED diag
       \/ /\ \/ nthreads >= MaxThreads /\ NoFault
             \/ CanFault /\ Fault
          /\ rc' = [rc EXCEPT ![MainThread] = EAGAIN]
          /\ diag' = [diag EXCEPT ![MainThread] = "Unable to create consumer thread"]
          /\ Goto(MainThread, "diag_w")
          /\ UNCHANGED <<nthreads, consumerThread, results, commandResult>>
    /\ UNCHANGED <<msg, written, errno, line, mutex, stopped, qVars, otherVars, ioVars,
                   input, closeResult, exitCode, closeHandlerRuns,
                   mqCloseCalls, joined, destroyed, blockedAtClose,
                   initialQueue, consumerThreadExists>>

\* pthread_create(&shared.consumerThread, 0, &consume, &shared): on success
\* the handle is overwritten with the new thread and the handler returns 0;
\* on failure the flag is reset and the error is reported without a Lock.
consumeHandler_create ==
    /\ pc[MainThread] = "consume_create"
    /\ \/ /\ nthreads < MaxThreads
          /\ nthreads' = nthreads + 1
          /\ consumerThread' = nthreads + 1
          /\ pc' = [pc EXCEPT ![MainThread] = AfterHandler(0),
                              ![nthreads + 1] = "recv_call"]
          /\ HandlerReturns(0)
          /\ NoFault
          /\ UNCHANGED <<consumerThreadExists, diag>>
       \/ /\ \/ nthreads >= MaxThreads /\ NoFault
             \/ CanFault /\ Fault
          /\ consumerThreadExists' = FALSE
          /\ rc' = [rc EXCEPT ![MainThread] = EAGAIN]
          /\ diag' = [diag EXCEPT ![MainThread] = "Unable to create consumer thread"]
          /\ Goto(MainThread, "diag_w")
          /\ UNCHANGED <<nthreads, consumerThread, results, commandResult>>
    /\ UNCHANGED <<msg, written, errno, line, mutex, stopped, qVars, otherVars, ioVars,
                   input, closeResult, exitCode, closeHandlerRuns,
                   mqCloseCalls, joined, destroyed, blockedAtClose, initialQueue>>

\* ------------------------------------------------------------ closeHandler

\* Lock stoppedLock(shared.stoppedMutex, shared.consumerThreadExists): held
\* until closeHandler returns.
closeHandler_lock ==
    /\ pc[MainThread] = "close_lock"
    /\ Lock(MainThread, "stoppedMutex", consumerThreadExists)
    /\ closeHandlerRuns' = closeHandlerRuns + 1
    /\ blockedAtClose' = {t \in Tasks : pc[t] = "recv_blocked"}
    /\ Goto(MainThread, "close_set")
    /\ UNCHANGED <<msg, written, rc, errno, diag, line, stopped,
                   consumerThreadExists, consumerThread, qVars, otherVars, ioVars,
                   serveVars, mqCloseCalls, nthreads, joined, destroyed, initialQueue, faults>>

\* (mutant) the flag is not set before the queue is closed
closeHandler_stop_late ==
    /\ pc[MainThread] = "close_set"
    /\ Goto(MainThread, "close_mq")
    /\ UNCHANGED <<msg, written, rc, errno, diag, line, shVars, qVars, otherVars, ioVars,
                   serveVars, histVars, faults>>

\* shared.stopped = true.
closeHandler_stop ==
    /\ pc[MainThread] = "close_set"
    /\ stopped' = TRUE
    /\ Goto(MainThread, "close_mq")
    /\ UNCHANGED <<msg, written, rc, errno, diag, line, mutex,
                   consumerThreadExists, consumerThread, qVars, otherVars, ioVars,
                   serveVars, histVars, faults>>

\* rc = mq_close(shared.queue).  The descriptor is gone whatever mq_close
\* returns; a failure is reported and the handler goes on.
closeHandler_mq_close ==
    /\ pc[MainThread] = "close_mq"
    /\ mqCloseCalls' = mqCloseCalls + 1
    /\ queueOpen' = FALSE
    /\ \/ /\ rc' = [rc EXCEPT ![MainThread] = 0]
          /\ Goto(MainThread, "close_kill")
          /\ NoFault
          /\ UNCHANGED diag
       \/ /\ CanFault /\ Fault
          /\ rc' = [rc EXCEPT ![MainThread] = -1]
          /\ diag' = [diag EXCEPT ![MainThread] = "Unable to close the message queue"]
          /\ Goto(MainThread, "close_err_lock")
    /\ UNCHANGED <<msg, written, errno, line, shVars, queue, access, otherVars, ioVars,
                   serveVars, closeHandlerRuns, nthreads, joined, destroyed,
                   blockedAtClose, initialQueue>>

closeHandler_err_lock ==
    /\ pc[MainThread] = "close_err_lock"
    /\ Lock(MainThread, "stderrMutex", consumerThreadExists)
    /\ Goto(MainThread, "close_err_w")
    /\ UNCHANGED <<msg, written, rc, errno, diag, line, stopped,
                   consumerThreadExists, consumerThread, qVars, otherVars, ioVars,
                   serveVars, histVars, faults>>

closeHandler_err_write ==
    /\ pc[MainThread] = "close_err_w"
    /\ stderr' = Append(stderr, diag[MainThread])
    /\ diag' = [diag EXCEPT ![MainThread] = "none"]
    /\ Release(MainThread, {"stderrMutex"})
    /\ Goto(MainThread, "close_kill")
    /\ UNCHANGED <<msg, written, rc, errno, line, stopped,
                   consumerThreadExists, consumerThread, qVars, otherVars, stdout,
                   serveVars, histVars, faults>>

\* if (shared.consumerThreadExists) pthread_kill(shared.consumerThread,
\* SIGUSR1).  The signal's handler does nothing; its one effect is that an
\* mq_receive the thread is blocked in returns EINTR, which doReceive returns
\* as FAIL_INTERRUPTED_OR_CLOSED.  (A write the thread is in is retried.)
closeHandler_kill ==
    /\ pc[MainThread] = "close_kill"
    /\ IF consumerThreadExists /\ consumerThread \in Tasks
          /\ pc[consumerThread] = "recv_blocked"
       THEN /\ pc' = [pc EXCEPT ![MainThread] = "close_ret",
                                ![consumerThread] =
                                    consume(FAIL_INTERRUPTED_OR_CLOSED)]
            /\ errno' = [errno EXCEPT ![consumerThread] = "EINTR"]
            /\ rc' = [rc EXCEPT ![consumerThread] = FAIL_INTERRUPTED_OR_CLOSED]
       ELSE /\ Goto(MainThread, "close_ret")
            /\ UNCHANGED <<errno, rc>>
    /\ UNCHANGED <<msg, written, diag, line, shVars, qVars, otherVars, ioVars, serveVars,
                   histVars, faults>>

\* (mutant) closeHandler returns with stoppedMutex still locked
closeHandler_return_keep ==
    /\ pc[MainThread] = "close_ret"
    /\ closeResult' = rc[MainThread]
    /\ Goto(MainThread, "join")
    /\ UNCHANGED <<msg, written, rc, errno, diag, line, shVars, qVars, otherVars, ioVars,
                   input, results, commandResult, exitCode, histVars, faults>>

\* return rc: stoppedLock goes out of scope.
closeHandler_return ==
    /\ pc[MainThread] = "close_ret"
    /\ Release(MainThread, {"stoppedMutex"})
    /\ closeResult' = rc[MainThread]
    /\ Goto(MainThread, "join")
    /\ UNCHANGED <<msg, written, rc, errno, diag, line, stopped,
                   consumerThreadExists, consumerThread, qVars, otherVars, ioVars, input,
                   results, commandResult, exitCode, histVars, faults>>

\* (mutant) the close result takes precedence over the command result
ExitCode_closeFirst(command, close) == IF close # 0 THEN close ELSE command

\* return commandResult ? commandResult : closeResult.
ExitCode(command, close) == IF command # 0 THEN command ELSE close

\* serve's return, and the destructors
\* in reverse order of declaration: ~ThreadJoinGuard joins
\* shared.consumerThread if shared.consumerThreadExists, then ~Shared
\* destroys the mutexes.
serve_return ==
    /\ pc[MainThread] = "join"
    /\ IF consumerThreadExists
       THEN /\ consumerThread \in Tasks
            /\ pc[consumerThread] = "stopped"
            /\ joined' = joined \cup {consumerThread}
       ELSE joined' = joined
    /\ destroyed' = TRUE
    /\ exitCode' = ExitCode(commandResult, closeResult)
    /\ Goto(MainThread, "done")
    /\ UNCHANGED <<msg, written, rc, errno, diag, line, shVars, qVars, otherVars, ioVars,
                   input, results, commandResult, closeResult,
                   closeHandlerRuns, mqCloseCalls, nthreads, blockedAtClose,
                   initialQueue, faults>>

\* ----------------------------------------------------------------- consume

\* rc == FAIL_INTERRUPTED_OR_CLOSED: Lock lock(shared.stoppedMutex).
consume_lock(t) ==
    /\ pc[t] = "consume_lock"
    /\ Lock(t, "stoppedMutex", TRUE)
    /\ Goto(t, "consume_check")
    /\ UNCHANGED <<msg, written, rc, errno, diag, line, stopped,
                   consumerThreadExists, consumerThread, qVars, otherVars, ioVars,
                   serveVars, histVars, faults>>

\* if (shared.stopped) return 0; otherwise go around again.  With the debug
\* option on the thread reports that it is finishing before it returns, with
\* stoppedMutex still locked.
consume_check(t) ==
    /\ pc[t] = "consume_check"
    /\ IF stopped /\ debug
       THEN mutex' = mutex /\ Goto(t, "consume_dbg_finishing")
       ELSE /\ Release(t, {"stoppedMutex"})
            /\ Goto(t, IF stopped THEN "stopped" ELSE "recv_call")
    /\ errno' = [errno EXCEPT ![t] = "none"]
    /\ rc' = [rc EXCEPT ![t] = IF stopped THEN @ ELSE 0]
    /\ UNCHANGED <<msg, written, diag, line, stopped,
                   consumerThreadExists, consumerThread, qVars, otherVars, ioVars,
                   serveVars, histVars, faults>>

\* --------------------------------------------------------------- doReceive

\* buffer.resize throws std::bad_alloc: reported, FAIL_ALLOC.
doReceive_alloc_fail(th) ==
    /\ pc[th] = "recv_call"
    /\ CanFault /\ Fault
    /\ rc' = [rc EXCEPT ![th] = FAIL_ALLOC]
    /\ diag' = [diag EXCEPT ![th] = "Failed to allocate memory"]
    /\ errno' = [errno EXCEPT ![th] = "none"]
    /\ Goto(th, "recv_err_lock")
    /\ UNCHANGED <<msg, written, line, shVars, qVars, otherVars, ioVars,
                   serveVars, histVars>>

\* What doReceive does with mq_receive's result: a message goes on to be
\* printed, EINTR and EBADF return FAIL_INTERRUPTED_OR_CLOSED, any other
\* error is reported and returns FAIL_RECEIVE.
doReceive_received(th) ==
    /\ queue # <<>>
    /\ msg' = [msg EXCEPT ![th] = Head(queue)]
    /\ queue' = Tail(queue)
    /\ errno' = [errno EXCEPT ![th] = "none"]
    /\ Goto(th, IF debug THEN "recv_dbg_received" ELSE "recv_out_lock")
    /\ NoFault
    /\ UNCHANGED <<written, rc, diag, results, commandResult>>

doReceive_retryable(th, error) ==
    /\ errno' = [errno EXCEPT ![th] = error]
    /\ DoReceiveReturns(th, FAIL_INTERRUPTED_OR_CLOSED)
    /\ UNCHANGED <<msg, queue, written, diag>>

doReceive_failed(th) ==
    /\ CanFault /\ Fault
    /\ errno' = [errno EXCEPT ![th] = "none"]
    /\ rc' = [rc EXCEPT ![th] = FAIL_RECEIVE]
    /\ diag' = [diag EXCEPT ![th] = "Failed to receive message"]
    /\ Goto(th, "recv_err_lock")
    /\ UNCHANGED <<msg, queue, written, results, commandResult>>

\* (mutant) stdoutMutex is taken before mq_receive is called
doReceive_mq_receive_locked(th) ==
    /\ pc[th] = "recv_call"
    /\ mutex["stdoutMutex"] = {}
    /\ Readable /\ queue = <<>>
    /\ mutex' = [mutex EXCEPT !["stdoutMutex"] = {th}]
    /\ Goto(th, "recv_blocked")
    /\ errno' = [errno EXCEPT ![th] = "none"]
    /\ NoFault
    /\ UNCHANGED <<msg, queue, written, rc, diag, results, commandResult,
                   line, stopped, consumerThreadExists, consumerThread,
                   queueOpen, access, otherVars, ioVars, input, closeResult, exitCode,
                   histVars>>

\* The call of mq_receive: it fails at once on a descriptor that is closed or
\* not open for reading, returns the first message if there is one, and
\* blocks on an empty queue.
doReceive_mq_receive(th) ==
    /\ pc[th] = IF debug THEN "recv_mq" ELSE "recv_call"
    /\ \/ ~Readable /\ doReceive_retryable(th, "EBADF") /\ NoFault
       \/ Readable /\ doReceive_received(th)
       \/ /\ Readable /\ queue = <<>>
          /\ Goto(th, "recv_blocked")
          /\ errno' = [errno EXCEPT ![th] = "none"]
          /\ NoFault
          /\ UNCHANGED <<msg, queue, written, rc, diag, results,
                         commandResult>>
       \/ Readable /\ doReceive_failed(th)
    /\ UNCHANGED <<line, shVars, queueOpen, access, otherVars, ioVars, input,
                   closeResult, exitCode, histVars>>

\* A blocked mq_receive returns: with a message that arrived, with EINTR
\* because a signal was handled, or (on platforms where closing the
\* descriptor wakes the call) with EBADF after mq_close.
doReceive_wake(th) ==
    /\ pc[th] = "recv_blocked"
    /\ \/ doReceive_received(th)
       \/ doReceive_retryable(th, "EINTR") /\ NoFault
       \/ ~queueOpen /\ doReceive_retryable(th, "EBADF") /\ NoFault
    /\ UNCHANGED <<line, shVars, queueOpen, access, otherVars, ioVars, input,
                   closeResult, exitCode, histVars>>

\* Lock stdoutLock(shared.stdoutMutex, shared.consumerThreadExists), and
\* ssize_t written = 0.
doReceive_lock(th) ==
    /\ pc[th] = "recv_out_lock"
    /\ Lock(th, "stdoutMutex", consumerThreadExists)
    /\ written' = [written EXCEPT ![th] = 0]
    /\ Goto(th, "recv_write")
    /\ UNCHANGED <<msg, rc, errno, diag, line, stopped, consumerThreadExists,
                   consumerThread, qVars, otherVars, ioVars, serveVars, histVars, faults>>

\* What a write(stdoutFd, outputBegin, outputSize) that returns n puts on
\* stdout: n bytes of the message's region starting at offset 0, the offset
\* of outputBegin.  The entry's last field is 'written' before the call.
WriteChunk(th, n) == <<"msg", msg[th], 0, n, written[th]>>

\* One turn of  for (written = 0; written != outputSize;): the write returns
\* outputSize, or less (a partial write), or fails with EINTR (retry) or with
\* another error (FAIL_WRITE).  'written' that has passed outputSize can never
\* equal it again: the thread is then at "recv_spin", writing the region
\* over and over; the model records no more of that output.
doReceive_write(th) ==
    /\ pc[th] = "recv_write"
    /\ \/ \E n \in {1, OutputSize(msg[th]) - 1, OutputSize(msg[th])} :
            /\ IF n = OutputSize(msg[th]) THEN NoFault ELSE CanFault /\ Fault
            /\ stdout' = Append(stdout, WriteChunk(th, n))
            /\ IF written[th] + n = OutputSize(msg[th])
               THEN /\ Release(th, {"stdoutMutex"})
                    /\ DoReceiveReturns(th, 0)
                    /\ written' = [written EXCEPT ![th] = 0]
                    /\ msg' = [msg EXCEPT ![th] = NoMsg]
               ELSE /\ Goto(th, IF written[th] + n > OutputSize(msg[th])
                                THEN "recv_spin" ELSE "recv_write")
                    /\ written' = [written EXCEPT ![th] = @ + n]
                    /\ UNCHANGED <<msg, mutex, rc, results, commandResult>>
            /\ UNCHANGED diag
       \/ /\ NoFault                                  \* EINTR: continue
          /\ UNCHANGED <<pc, msg, stdout, written, mutex, rc, results,
                         commandResult, diag>>
       \/ /\ CanFault /\ Fault                        \* any other error
          /\ Release(th, {"stdoutMutex"})
          /\ rc' = [rc EXCEPT ![th] = FAIL_WRITE]
          /\ diag' = [diag EXCEPT ![th] = "Failed to return message"]
          /\ written' = [written EXCEPT ![th] = 0]
          /\ msg' = [msg EXCEPT ![th] = NoMsg]
          /\ Goto(th, "recv_err_lock")
          /\ UNCHANGED <<stdout, results, commandResult>>
    /\ UNCHANGED <<errno, line, stopped, consumerThreadExists,
                   consumerThread, qVars, otherVars, stderr, input, closeResult,
                   exitCode, histVars>>

\* Lock lock(shared.stderrMutex, shared.consumerThreadExists) before
\* doReceive's diagnostic.
doReceive_err_lock(th) ==
    /\ pc[th] = "recv_err_lock"
    /\ Lock(th, "stderrMutex", consumerThreadExists)
    /\ Goto(th, "recv_err_w")
    /\ UNCHANGED <<msg, written, rc, errno, diag, line, stopped,
                   consumerThreadExists, consumerThread, qVars, otherVars, ioVars,
                   serveVars, histVars, faults>>

\* The diagnostic and the return of the failure code.
doReceive_err_write(th) ==
    /\ pc[th] = "recv_err_w"
    /\ stderr' = Append(stderr, diag[th])
    /\ diag' = [diag EXCEPT ![th] = "none"]
    /\ Release(th, {"stderrMutex"})
    /\ DoReceiveReturns(th, rc[th])
    /\ UNCHANGED <<msg, written, errno, line, stopped,
                   consumerThreadExists, consumerThread, qVars, otherVars, stdout, input,
                   closeResult, exitCode, histVars, faults>>

\* ------------------------------------------------------------ debug lines

\* The lines written when shared.options.debug is set: where the thread is
\* when it constructs the Lock on stderrMutex, where it is when it holds the
\* Lock and writes, where it goes on, and whether the Lock is unconditional.
\* doReceive writes four lines (about to receive, received, calculated
\* numbersExpectedSize, measured numbersSize), consume one (finishing).
DebugLines ==
    { [at |-> "recv_call", w |-> "recv_dbg_about_w", next |-> "recv_mq",
       always |-> FALSE],
      [at |-> "recv_dbg_received", w |-> "recv_dbg_received_w",
       next |-> "recv_dbg_calculated", always |-> FALSE],
      [at |-> "recv_dbg_calculated", w |-> "recv_dbg_calculated_w",
       next |-> "recv_dbg_measured", always |-> FALSE],
      [at |-> "recv_dbg_measured", w |-> "recv_dbg_measured_w",
       next |-> "recv_out_lock", always |-> FALSE],
      [at |-> "consume_dbg_finishing", w |-> "consume_dbg_finishing_w",
       next |-> "stopped", always |-> TRUE] }

\* What stderr records of the debug lines: a run of them is one entry (a
\* receive that is retried without end repeats its line without end).
DebugEntry(err) ==
    IF err # <<>> /\ err[Len(err)] = "debug" THEN err ELSE Append(err, "debug")

\* if (shared.options.debug) { Lock lock(shared.stderrMutex, ...);
debug_lock(th, l) ==
    /\ debug
    /\ pc[th] = l.at
    /\ Lock(th, "stderrMutex", l.always \/ consumerThreadExists)
    /\ Goto(th, l.w)
    /\ UNCHANGED <<msg, written, rc, errno, diag, line, stopped,
                   consumerThreadExists, consumerThread, qVars, otherVars,
                   ioVars, serveVars, histVars, faults>>

\* (mutant) a debug line goes to stdout
debug_write_stdout(th, l) ==
    /\ pc[th] = l.w
    /\ stdout' = Append(stdout, <<"debug">>)
    /\ Release(th, IF l.next = "stopped"
                   THEN {"stderrMutex", "stoppedMutex"} ELSE {"stderrMutex"})
    /\ Goto(th, l.next)
    /\ UNCHANGED <<msg, written, rc, errno, diag, line, stopped,
                   consumerThreadExists, consumerThread, qVars, otherVars,
                   stderr, serveVars, histVars, faults>>

\* std::cerr << ... << std::endl; }  The Lock's scope ends; consume then
\* returns, which ends the scope of its Lock on stoppedMutex too.
debug_write(th, l) ==
    /\ pc[th] = l.w
    /\ stderr' = DebugEntry(stderr)
    /\ Release(th, IF l.next = "stopped"
                   THEN {"stderrMutex", "stoppedMutex"} ELSE {"stderrMutex"})
    /\ Goto(th, l.next)
    /\ UNCHANGED <<msg, written, rc, errno, diag, line, stopped,
                   consumerThreadExists, consumerThread, qVars, otherVars,
                   stdout, serveVars, histVars, faults>>

\* ------------------------------------------------------------------- Next
Foreground ==
    \/ serve_read
    \/ diagnostic_lock
    \/ diagnostic_write
    \/ output_lock
    \/ output_write
    \/ sendHandler_read
    \/ sendHandler_mq_send
    \/ countHandler
    \/ msgsizeHandler
    \/ maxmsgHandler
    \/ consumeHandler_mark
    \/ consumeHandler_create
    \/ closeHandler_lock
    \/ closeHandler_stop
    \/ closeHandler_mq_close
    \/ closeHandler_err_lock
    \/ closeHandler_err_write
    \/ closeHandler_kill
    \/ closeHandler_return
    \/ serve_return

Engine(th) ==
    \/ doReceive_alloc_fail(th)
    \/ doReceive_mq_receive(th)
    \/ doReceive_wake(th)
    \/ doReceive_lock(th)
    \/ doReceive_write(th)
    \/ doReceive_err_lock(th)
    \/ doReceive_err_write(th)

Task(t) ==
    \/ consume_lock(t)
    \/ consume_check(t)

\* Consumer threads run until the process exits, which is when main returns
\* what serve returned.
Next ==
    \/ Foreground
    \/ \E th \in Threads : pc[MainThread] # "done" /\ Engine(th)
    \/ \E t \in Tasks : pc[MainThread] # "done" /\ Task(t)

Spec == Init /\ [][Next]_vars

\* The session with the debug option on: the same steps, and the debug lines.
NextDebug ==
    \/ Next
    \/ \E th \in Threads, l \in DebugLines :
          pc[MainThread] # "done" /\ debug_lock(th, l)
    \/ \E th \in Threads, l \in DebugLines :
          pc[MainThread] # "done" /\ debug_write(th, l)

DebugSpec == InitDebug /\ [][NextDebug]_vars

\* The steps a thread takes by itself once the scheduler runs it.  The return
\* of a blocked mq_receive with EINTR is not one of them: it takes a signal,
\* which nothing promises.
ThreadStep(th) ==
    \/ th = MainThread /\ Foreground
    \/ /\ pc[MainThread] # "done"
       /\ \/ Engine(th) /\ errno'[th] # "EINTR"
          \/ th \in Tasks /\ Task(th)

\* Every thread that can take a step is scheduled in the end.
FairSpec == Spec /\ \A th \in Threads : WF_vars(ThreadStep(th))

\* ------------------------------------------- doReceive's prefix, on its own

\* The largest values of 'unsigned' (32 bits) and of 'ssize_t' (64 bits), in
\* decimal digits.
UINT_MAX  == <<4, 2, 9, 4, 9, 6, 7, 2, 9, 5>>
SSIZE_MAX == <<9, 2, 2, 3, 3, 7, 2, 0, 3, 6, 8, 5, 4, 7, 7, 5, 8, 0, 7>>

\* std::numeric_limits<T>::digits10: the number of decimal digits that every
\* value of T can hold, one less than the digits of T's largest value.
Digits10(max) == Len(max) - 1

\* numbersMaxSize: priority, space, minus sign, size, terminator.
numbersMaxSize == Digits10(UINT_MAX) + 1 + 1 + Digits10(SSIZE_MAX) + 1

\* sizeBase10 of the non-negative number with these digits: 1 for zero,
\* otherwise floor(1 + log10(number)).
SizeBase10OfDigits(d) == IF d = <<0>> THEN 1 ELSE Len(d)

\* numbersExpectedSize: priority, space, size, terminator.
numbersExpectedSize(p, sz) ==
    SizeBase10OfDigits(p) + 1 + SizeBase10OfDigits(sz) + 1

\* The smallest number of k decimal digits.
SmallestOfWidth(k) ==
    [i \in 1..k |-> IF i = 1 /\ k > 1 THEN 1 ELSE 0]

PriorityValues ==
    {SmallestOfWidth(k) : k \in 1..Len(UINT_MAX)} \cup {UINT_MAX}
SizeValues ==
    {SmallestOfWidth(k) : k \in 1..Len(SSIZE_MAX)} \cup {SSIZE_MAX}

\* mq_receive has returned a message of some priority and some size.
InitPrefix ==
    /\ debug = FALSE
    /\ priority \in PriorityValues
    /\ msgSize \in SizeValues
    /\ numbersBegin = <<>>
    /\ InitSession /\ queue = <<>> /\ access = "rw"

\* numbersBegin = bufferBegin + (numbersMaxSize - numbersExpectedSize).
doReceive_prefix ==
    /\ numbersBegin = <<>>
    /\ numbersBegin' =
          <<numbersMaxSize - numbersExpectedSize(priority, msgSize)>>
    /\ UNCHANGED <<thrVars, shVars, qVars, ioVars, serveVars, histVars,
                   faults, debug, priority, msgSize>>

NextPrefix == doReceive_prefix

PrefixSpec == InitPrefix /\ [][NextPrefix]_vars

\* ------------------------------------------------------------------ claims

Alive(t)  == pc[t] \notin {"none", "stopped"}
InStdout(th) == pc[th] \in {"out_w", "recv_write", "recv_spin"}
InCloseOrAfter ==
    pc[MainThread] \in {"close_set", "close_mq", "close_err_lock",
                        "close_err_w", "close_kill", "close_ret", "join",
                        "done"}

RECURSIVE FirstNonZero(_)
FirstNonZero(codes) ==
    IF codes = <<>> THEN 0
    ELSE IF Head(codes) # 0 THEN Head(codes)
    ELSE FirstNonZero(Tail(codes))

\* C1: however the loop ends, closeHandler runs exactly once, after the loop;
\* mq_close is called exactly once in the session, inside closeHandler.
C1_CloseHandlerOnce ==
    /\ closeHandlerRuns <= 1
    /\ mqCloseCalls <= closeHandlerRuns
    /\ queueOpen <=> mqCloseCalls = 0
    /\ closeHandlerRuns = 1 <=> InCloseOrAfter
    /\ mqCloseCalls = 1 => InCloseOrAfter /\ pc[MainThread] \notin {"close_set", "close_mq"}
    /\ pc[MainThread] \in {"join", "done"} =>
           closeHandlerRuns = 1 /\ mqCloseCalls = 1

\* The loop was ended by a handler that returned non-zero, and serve returned.
C1_Witness ==
    /\ pc[MainThread] = "done"
    /\ results # <<>> /\ results[Len(results)] # 0
    /\ closeHandlerRuns = 1 /\ mqCloseCalls = 1

\* C2 (as claimed): while a consumer thread exists, a thread that is writing
\* to stdout holds stdoutMutex (so no two threads are writing at once).
C2_StdoutUnderMutex ==
    \A th \in Threads :
        (InStdout(th) /\ \E t \in Tasks : Alive(t)) =>
            mutex["stdoutMutex"] = {th}

\* C3 (as claimed): a consumer thread that was blocked in mq_receive when
\* close was issued has stopped by the time the session has terminated.
C3_BlockedTaskStops ==
    pc[MainThread] = "done" => \A t \in blockedAtClose : pc[t] = "stopped"

\* C4 (as claimed): at most one consumer thread exists at any time.
C4_AtMostOneTask ==
    Cardinality({t \in Tasks : Alive(t)}) <= 1

\* C5 (as claimed): for the input consume, send m, close on an initially
\* empty queue, with no fault injected, when closeHandler has returned stdout
\* holds exactly one complete line of m.  (The closing verb is not part of
\* 'input'; the main thread at "join" or "done" has run closeHandler.)
C5_OneLineBeforeClose ==
    ( /\ Len(input) = 2
      /\ input[1] = <<"consume">>
      /\ input[2][1] = "send" /\ Len(input[2]) = 2
      /\ initialQueue = <<>> /\ access = "rw" /\ faults = 0
      /\ pc[MainThread] \in {"join", "done"} )
    => Cardinality({i \in DOMAIN stdout :
                      stdout[i] = <<"msg", input[2][2], 0,
                                    OutputSize(input[2][2]), 0>>}) = 1

\* C6 (as claimed): receiveHandler does not call doReceive again after
\* mq_receive failed because the descriptor is invalid.
C6_NoRetryOnInvalidHandle ==
    ~(pc[MainThread] = "recv_call" /\ errno[MainThread] = "EBADF")

\* C7: stopped is set before the queue is closed and before the signal is
\* sent, so a consumer thread that checks the flag after the close finds it set.
C7_StoppedBeforeClose ==
    /\ ~queueOpen => stopped
    /\ pc[MainThread] \in {"close_ret", "join", "done"} => stopped
    /\ \A t \in Tasks : (pc[t] = "consume_check" /\ ~queueOpen) => stopped

\* A consumer thread holds stoppedMutex and is about to read the flag, after
\* the queue was closed.
C7_Witness ==
    \E t \in Tasks :
        /\ pc[t] = "consume_check" /\ ~queueOpen
        /\ errno[t] \in {"EBADF", "EINTR"}
        /\ stopped

\* C8 (as claimed): when Shared is destroyed every consumer thread that was
\* started has been joined.
C8_JoinedBeforeTeardown ==
    destroyed => \A t \in Tasks : pc[t] # "none" => t \in joined

\* C9: serve returns the first non-zero handler result (1 for an unknown
\* verb), and closeHandler's result when there is none; a send followed by
\* close on a queue that accepts the message prints the ack and returns 0.
C9_ExitCode ==
    pc[MainThread] = "done" =>
        /\ exitCode = IF FirstNonZero(results) # 0
                      THEN FirstNonZero(results) ELSE closeResult
        /\ (input # <<>> /\ input[Len(input)] = <<"bogus">>) => exitCode = 1
        /\ ( /\ Len(input) = 1 /\ input[1][1] = "send" /\ Len(input[1]) = 2
             /\ faults = 0 /\ access # "ro" /\ initialQueue = <<>> )
           => /\ stdout = << <<"ack", Len(input[1][2][2])>> >>
              /\ exitCode = 0

\* send 0 1 x, close: stdout is "ack 1" and the exit code is 0.
C9_Witness ==
    /\ pc[MainThread] = "done"
    /\ input = << <<"send", <<0, <<"x">>>>>> >>
    /\ stdout = << <<"ack", 1>> >>
    /\ exitCode = 0

\* C10 (as claimed): every write of doReceive's loop starts at the first byte
\* of the region that has not been written yet.
C10_WriteRemainder ==
    \A i \in DOMAIN stdout :
        stdout[i][1] = "msg" => stdout[i][3] = stdout[i][5]

\* C11 (as claimed): no thread holds stoppedMutex while it is about to make a
\* queue call (mq_send, mq_receive, mq_getattr, mq_close), write to stdout or
\* stderr, or send the signal.
InServiceCall(th) ==
    pc[th] \in {"send_mq", "count_q", "msgsize_q", "maxmsg_q", "recv_call",
                "recv_blocked", "recv_write", "recv_spin", "recv_err_w",
                "out_w", "diag_w", "close_mq", "close_err_w", "close_kill"}

C11_StoppedMutexNotHeldDuringIO ==
    \A th \in Threads : InServiceCall(th) => th \notin mutex["stoppedMutex"]

\* C12: a send that fails validation returns 1 (unreadable priority), 2
\* (unreadable size), 4 (negative size) or 5 (short payload), never 3, the
\* code of a failed mq_send; from the failure to the handler's return no step
\* of the main thread changes the queue, and the code is what the dispatcher
\* gets.
ValidationDiags ==
    {"Unable to read message priority", "Unable to read message size",
     "Messages must have a non-negative size",
     "Unable to read from input all of the message"}

ValidationCode(d) ==
    CASE d = "Unable to read message priority"              -> 1
      [] d = "Unable to read message size"                  -> 2
      [] d = "Messages must have a non-negative size"       -> 4
      [] d = "Unable to read from input all of the message" -> 5

C12_Step ==
    /\ (pc[MainThread] = "send_parse" /\ pc'[MainThread] = "diag_lock") =>
          /\ diag'[MainThread] \in ValidationDiags
          /\ rc'[MainThread] = ValidationCode(diag'[MainThread])
          /\ rc'[MainThread] \notin {0, 3}
          /\ queue' = queue
          /\ msg'[MainThread] = NoMsg
    /\ ( /\ pc[MainThread] \in {"diag_lock", "diag_w"}
         /\ diag[MainThread] \in ValidationDiags
         /\ pc'[MainThread] # pc[MainThread] ) =>
          /\ queue' = queue
          /\ rc[MainThread] = ValidationCode(diag[MainThread])
          /\ pc[MainThread] = "diag_w" =>
                /\ results' = Append(results, rc[MainThread])
                /\ stderr' = Append(stderr, diag[MainThread])

C12_SendValidation == [][C12_Step]_vars

\* send with a negative size on a queue holding one message: 4 was returned,
\* the diagnostic is on stderr and the queue still holds that message.
C12_Witness ==
    /\ input = << <<"send">> >>
    /\ results = <<4>>
    /\ stderr = <<"Messages must have a non-negative size">>
    /\ initialQueue # <<>> /\ queue = initialQueue

\* C13 (as claimed): send m followed by receive, on a queue that was empty
\* and with no consumer thread: "ack <size>" is on stdout before the receive
\* is dispatched, and what the receive writes to stdout is the line of m,
\* byte for byte: every write continues where the bytes written before it
\* ended, and a receive that returned 0 has written the whole line.
RECURSIVE BytesWritten(_, _)
BytesWritten(out, i) ==
    IF i = 0 THEN 0
    ELSE (IF out[i][1] = "msg" THEN out[i][4] ELSE 0) + BytesWritten(out, i - 1)

C13_SendReceiveRoundTrip ==
    ( /\ Len(input) = 2
      /\ input[1][1] = "send" /\ Len(input[1]) = 2
      /\ input[2] = <<"receive">>
      /\ results # <<>> /\ results[1] = 0
      /\ initialQueue = <<>> /\ nthreads = 0 )
    => /\ stdout # <<>> /\ stdout[1] = <<"ack", Len(input[1][2][2])>>
       /\ \A i \in 2..Len(stdout) :
             /\ stdout[i][1] = "msg" /\ stdout[i][2] = input[1][2]
             /\ stdout[i][3] = BytesWritten(stdout, i - 1)
       /\ (Len(results) = 2 /\ results[2] = 0) =>
             BytesWritten(stdout, Len(stdout)) = OutputSize(input[1][2])

\* C14: every non-zero code returned to the dispatcher (by a handler, by the
\* unknown-verb branch or by closeHandler) comes with exactly one line on
\* stderr: the lines on stderr are those of the non-zero results, of a failed
\* close, and of the consumer threads that stopped on a hard failure.
RECURSIVE NonZeroCount(_)
NonZeroCount(codes) ==
    IF codes = <<>> THEN 0
    ELSE (IF Head(codes) # 0 THEN 1 ELSE 0) + NonZeroCount(Tail(codes))

CloseDiagnostics ==
    IF \/ pc[MainThread] \in {"close_kill", "close_ret"} /\ rc[MainThread] # 0
       \/ closeResult \notin {0, -2}
    THEN 1 ELSE 0

TaskDiagnostics ==
    Cardinality({t \in Tasks :
                   pc[t] = "stopped"
                   /\ rc[t] \in {FAIL_RECEIVE, FAIL_WRITE, FAIL_ALLOC}})

C14_OneDiagnosticPerFailure ==
    Len(stderr) = NonZeroCount(results) + CloseDiagnostics + TaskDiagnostics

\* A handler failed and then mq_close failed: two codes, two lines.
C14_Witness ==
    /\ pc[MainThread] = "done"
    /\ results # <<>> /\ results[Len(results)] # 0
    /\ closeResult = -1
    /\ Len(stderr) = 2
    /\ stderr[2] = "Unable to close the message queue"

\* C15 (as claimed): consumerThreadExists is true only once a consumer thread
\* was successfully created.
C15_FlagOnlyAfterCreation ==
    consumerThreadExists => nthreads >= 1

\* C15 (amended): consumerThreadExists is set before pthread_create is called
\* and set back when the call fails; outside consumeHandler the flag implies
\* that a consumer thread was created.  When the creation fails the flag is
\* false afterwards, the diagnostic is written and consumeHandler returns
\* pthread_create's error code.
C15_FlagSetAroundCreation ==
    /\ pc[MainThread] = "consume_create" => consumerThreadExists
    /\ (consumerThreadExists /\ pc[MainThread] # "consume_create") =>
           nthreads >= 1
    /\ ( /\ pc[MainThread] = "diag_w"
         /\ diag[MainThread] = "Unable to create consumer thread" ) =>
           ~consumerThreadExists /\ rc[MainThread] = EAGAIN
    /\ ( /\ results # <<>> /\ results[Len(results)] # 0
         /\ input[Len(results)] = <<"consume">> ) =>
           /\ ~consumerThreadExists
           /\ results[Len(results)] = EAGAIN
           /\ \E i \in DOMAIN stderr :
                 stderr[i] = "Unable to create consumer thread"

\* The first consume failed to create its thread and has returned.
C15_Witness ==
    /\ input = << <<"consume">> >>
    /\ results = <<EAGAIN>>
    /\ nthreads = 0
    /\ ~consumerThreadExists
    /\ stderr = <<"Unable to create consumer thread">>

\* C16: a consumer thread stops only after doReceive returned
\* FAIL_INTERRUPTED_OR_CLOSED and it then read stopped = true holding
\* stoppedMutex, or after doReceive returned a hard failure; the retryable
\* outcome always leads to the check of the flag, and the check with the flag
\* false leads to the next doReceive.
C16_Step ==
    \A t \in Tasks :
        /\ (pc[t] # "stopped" /\ pc'[t] = "stopped") =>
              \/ /\ pc[t] = "consume_check"
                 /\ rc[t] = FAIL_INTERRUPTED_OR_CLOSED
                 /\ stopped
                 /\ mutex["stoppedMutex"] = {t}
              \/ /\ pc[t] = "recv_err_w"
                 /\ rc'[t] \in {FAIL_RECEIVE, FAIL_WRITE, FAIL_ALLOC}
        /\ (rc[t] # FAIL_INTERRUPTED_OR_CLOSED
            /\ rc'[t] = FAIL_INTERRUPTED_OR_CLOSED) =>
              pc'[t] = "consume_lock"
        /\ (pc[t] = "consume_check" /\ ~stopped /\ pc'[t] # pc[t]) =>
              pc'[t] = "recv_call"

C16_TaskStopReasons == [][C16_Step]_vars

\* A consumer thread has stopped because it found the flag set after a
\* retryable outcome.
C16_Witness ==
    \E t \in Tasks :
        /\ pc[t] = "stopped"
        /\ rc[t] = FAIL_INTERRUPTED_OR_CLOSED
        /\ stopped

\* C17: once the loop has ended (a handler returned non-zero, close or the
\* end of input was read, or an unknown verb was read) no verb is dispatched
\* any more: a verb is dispatched only from the loop with every earlier result
\* zero; reading close changes nothing but the position of the main thread;
\* an unknown verb writes its diagnostic, sets commandResult to 1 and ends
\* the loop.
AfterLoop ==
    {"close_lock", "close_set", "close_mq", "close_err_lock", "close_err_w",
     "close_kill", "close_ret", "join", "done"}

C17_Step ==
    /\ \A i \in 1..(Len(results') - 1) : results'[i] = 0
    /\ pc[MainThread] \in AfterLoop =>
          /\ pc'[MainThread] \in AfterLoop
          /\ input' = input /\ results' = results
          /\ commandResult' = commandResult
    /\ input' # input =>
          /\ pc[MainThread] \in {"loop", "send_parse"}
          /\ commandResult = 0
          /\ \A i \in DOMAIN results : results[i] = 0
    /\ (pc[MainThread] = "loop" /\ pc'[MainThread] = "close_lock") =>
          UNCHANGED <<msg, written, rc, errno, diag, line, shVars, qVars,
                      ioVars, serveVars, histVars, faults, otherVars>>
    /\ (Len(input') > Len(input) /\ input'[Len(input')] = <<"bogus">>) =>
          /\ pc'[MainThread] = "diag_lock"
          /\ diag'[MainThread] = "Unknown command"
    /\ ( /\ pc[MainThread] = "diag_w" /\ diag[MainThread] = "Unknown command"
         /\ pc'[MainThread] # pc[MainThread] ) =>
          /\ stderr' = Append(stderr, "Unknown command")
          /\ commandResult' = 1
          /\ pc'[MainThread] = "close_lock"

C17_NoDispatchAfterLoop == [][C17_Step]_vars

\* count, then an unknown verb: the session ended with the diagnostic on
\* stderr and 1 as its primary result.
C17_Witness ==
    /\ pc[MainThread] = "done"
    /\ Len(input) = 2 /\ input[1] = <<"count">> /\ input[2] = <<"bogus">>
    /\ results = <<0, 1>>
    /\ commandResult = 1
    /\ stderr = <<"Unknown command">>

\* C18 (as claimed): while a consumer thread exists, a thread that is writing
\* a diagnostic to stderr holds stderrMutex.
InStderr(th) == pc[th] \in {"diag_w", "close_err_w", "recv_err_w"}

C18_StderrUnderMutex ==
    \A th \in Threads :
        (InStderr(th) /\ \E t \in Tasks : Alive(t)) =>
            mutex["stderrMutex"] = {th}

\* C19: in sendHandler's loop a transient interruption leaves the thread in
\* the loop with the same message and nothing reported or returned; any other
\* failure of mq_send leaves the queue alone, prepares no ack and returns 3
\* with its diagnostic; a success enqueues the message once and prepares
\* "ack <size>"; an ack reaches stdout only from a send that enqueued, and
\* stdout holds one ack for every send that returned 0.
Acks(out) == {i \in DOMAIN out : out[i][1] = "ack"}

SendsReturningZero(in, res) ==
    {i \in DOMAIN res : in[i][1] = "send" /\ res[i] = 0}

C19_Step ==
    /\ pc[MainThread] = "send_mq" =>
          /\ pc'[MainThread] \in {"send_mq", "diag_lock", "out_lock"}
          /\ msg[MainThread] \in Msgs
          /\ pc'[MainThread] = "send_mq" =>
                /\ msg'[MainThread] = msg[MainThread]
                /\ diag'[MainThread] = "none"
                /\ results' = results /\ commandResult' = commandResult
          /\ pc'[MainThread] = "diag_lock" =>
                /\ queue' = queue
                /\ line' = <<>>
                /\ rc'[MainThread] = 3
                /\ diag'[MainThread] = "Unable to send message"
          /\ pc'[MainThread] = "out_lock" =>
                /\ queue' = Enqueue(queue, msg[MainThread])
                /\ Len(queue') = Len(queue) + 1
                /\ line' = <<"ack", Len(msg[MainThread][2])>>
    /\ ( /\ pc[MainThread] \in {"diag_lock", "diag_w"}
         /\ diag[MainThread] = "Unable to send message"
         /\ pc'[MainThread] # pc[MainThread] ) =>
          /\ Acks(stdout') = Acks(stdout)
          /\ pc[MainThread] = "diag_w" =>
                /\ results' = Append(results, 3)
                /\ stderr' = Append(stderr, "Unable to send message")
    /\ Acks(stdout') # Acks(stdout) =>
          /\ pc[MainThread] = "out_w"
          /\ line = <<"ack", Len(msg[MainThread][2])>>
          /\ stdout' = Append(stdout, line)
          /\ results' = Append(results, 0)
    /\ Cardinality(Acks(stdout')) =
          Cardinality(SendsReturningZero(input', results'))

C19_SendRetryAndAck == [][C19_Step]_vars

\* Two sends were acknowledged and both messages are in the queue, the one
\* of the higher priority first.
C19_Witness ==
    /\ input = << <<"send", <<0, <<"x">>>>>>, <<"send", <<1, <<>>>>>> >>
    /\ results = <<0, 0>>
    /\ stdout = << <<"ack", 1>>, <<"ack", 0>> >>
    /\ queue = << <<1, <<>>>>, <<0, <<"x">>>> >>

\* C20 (as claimed): stopped starts false, only closeHandler writes it, it
\* goes from false to true and never back, and while a consumer thread exists
\* the thread that writes or reads it holds stoppedMutex.
C20_Step ==
    /\ stopped => stopped'
    /\ stopped' # stopped =>
          /\ pc[MainThread] = "close_set"
          /\ closeHandlerRuns = 1
          /\ (\E t \in Tasks : Alive(t)) =>
                mutex["stoppedMutex"] = {MainThread}
    /\ \A t \in Tasks :
          (pc[t] = "consume_check" /\ pc'[t] # pc[t]) =>
              mutex["stoppedMutex"] = {t}

C20_StoppedFlag == ~stopped /\ [][C20_Step]_vars

\* C22: a thread holds stdoutMutex only while it is writing to stdout: not
\* inside mq_receive, and not after doReceive or the handler has returned; so
\* when every consumer thread is blocked in mq_receive the mutex is free for
\* the foreground.
C22_StdoutMutexNotHeldInDequeue ==
    /\ \A th \in Threads :
          th \in mutex["stdoutMutex"] => InStdout(th)
    /\ (\A t \in Tasks : Alive(t) => pc[t] = "recv_blocked") =>
          mutex["stdoutMutex"] \subseteq {MainThread}

\* The foreground is printing under stdoutMutex while a consumer thread is
\* blocked in mq_receive.
C22_Witness ==
    /\ pc[MainThread] = "out_w"
    /\ mutex["stdoutMutex"] = {MainThread}
    /\ \E t \in Tasks : pc[t] = "recv_blocked"

\* C23: every count, msgsize or maxmsg that returned 0 wrote one line;
\* msgsize and maxmsg carry mq_msgsize and mq_maxmsg; in a session that never
\* dequeues, count carries the number of messages the queue started with plus
\* the sends acknowledged before it, and the queue holds exactly those
\* messages (the three handlers change nothing of it); the handlers leave the
\* session's flags alone.
AttrVerbs == {"count", "msgsize", "maxmsg"}

NoDequeue ==
    nthreads = 0 /\ \A i \in DOMAIN input : input[i][1] # "receive"

SendEnqueued(i) ==
    /\ input[i][1] = "send" /\ Len(input[i]) = 2
    /\ \/ i <= Len(results) /\ results[i] = 0
       \/ i = Len(input) /\ pc[MainThread] \in {"out_lock", "out_w"}

RECURSIVE ExpectedQueue(_)
ExpectedQueue(i) ==
    IF i = 0 THEN initialQueue
    ELSE IF SendEnqueued(i) THEN Enqueue(ExpectedQueue(i - 1), input[i][2])
    ELSE ExpectedQueue(i - 1)

C23_AttributeReports ==
    /\ Cardinality({i \in DOMAIN stdout : stdout[i][1] \in AttrVerbs}) =
          Cardinality({i \in DOMAIN results :
                         input[i][1] \in AttrVerbs /\ results[i] = 0})
    /\ \A i \in DOMAIN stdout :
          /\ stdout[i][1] = "msgsize" => stdout[i] = <<"msgsize", Attr.mq_msgsize>>
          /\ stdout[i][1] = "maxmsg" => stdout[i] = <<"maxmsg", Attr.mq_maxmsg>>
    /\ NoDequeue =>
          /\ \A i \in DOMAIN stdout :
                stdout[i][1] = "count" =>
                    stdout[i][2] = Len(initialQueue)
                                   + Cardinality({j \in 1..(i - 1) :
                                                    stdout[j][1] = "ack"})
          /\ queue = ExpectedQueue(Len(input))
    /\ pc[MainThread] \in {"count_q", "msgsize_q", "maxmsg_q"} =>
          ~stopped /\ queueOpen /\ commandResult = 0

\* One message was there, one was sent, and count reported 2.
C23_Witness ==
    /\ Len(input) = 2 /\ input[1][1] = "send" /\ input[2] = <<"count">>
    /\ results = <<0, 0>>
    /\ Len(initialQueue) = 1
    /\ Len(stdout) = 2 /\ stdout[2] = <<"count", 2>>
    /\ Len(queue) = 2

\* C24 (as claimed): a Lock is constructed with lockOnInit = false only
\* while no consumer thread exists: a thread that is at the construction of a
\* Lock while a consumer thread is running finds consumerThreadExists set.
AtLock(th) ==
    pc[th] \in {"diag_lock", "out_lock", "close_lock", "close_err_lock",
                "recv_out_lock", "recv_err_lock"}

C24_LockSkippedOnlyWithoutTask ==
    \A th \in Threads :
        (AtLock(th) /\ \E t \in Tasks : Alive(t)) => consumerThreadExists

\* C27 (as claimed): in doReceive's write loop the running total 'written'
\* never passes outputSize, so a loop in which every write makes progress
\* ends: no thread is left writing the region over and over under
\* stdoutMutex.
C27_WriteLoopTerminates ==
    \A th \in Threads :
        /\ pc[th] = "recv_write" => written[th] < OutputSize(msg[th])
        /\ pc[th] # "recv_spin"

\* C28 (as claimed): with one consumer thread and a receive in the
\* foreground, every message taken from the queue is with the one thread that
\* took it, or was lost to a failed write, or is on stdout as one line,
\* written once: every write to stdout continues the line where the bytes
\* already written end.
RECURSIVE LineProgress(_, _)
LineProgress(out, i) ==
    IF i = 0 THEN 0
    ELSE IF out[i][1] # "msg" THEN LineProgress(out, i - 1)
    ELSE IF LineProgress(out, i - 1) + out[i][4] >= OutputSize(out[i][2])
         THEN 0
         ELSE LineProgress(out, i - 1) + out[i][4]

CompleteLines ==
    Cardinality({i \in DOMAIN stdout :
                   stdout[i][1] = "msg" /\ LineProgress(stdout, i) = 0})

InFlight ==
    Cardinality({th \in Threads :
                   pc[th] \in {"recv_out_lock", "recv_write", "recv_spin"}})

WriteFailures ==
    Cardinality({i \in DOMAIN stderr : stderr[i] = "Failed to return message"})
    + Cardinality({th \in Threads :
                     pc[th] \in {"recv_err_lock", "recv_err_w"}
                     /\ diag[th] = "Failed to return message"})

Removed ==
    Len(initialQueue) + Cardinality({i \in DOMAIN input : SendEnqueued(i)})
    - Len(queue)

C28_PrintedExactlyOnce ==
    (nthreads = 1 /\ \E i \in DOMAIN input : input[i] = <<"receive">>) =>
        /\ \A i \in DOMAIN stdout :
              stdout[i][1] = "msg" =>
                  /\ stdout[i][3] = LineProgress(stdout, i - 1)
                  /\ stdout[i][3] + stdout[i][4] <= OutputSize(stdout[i][2])
        /\ Removed = CompleteLines + InFlight + WriteFailures

\* C29: the mutexes are in no wait cycle: a thread that another thread waits
\* for is not waiting itself, except a thread that waits for stderrMutex
\* holding stoppedMutex (the main thread in closeHandler, a consumer thread
\* at the debug line of consume), and the holder of stderrMutex waits for
\* nothing.  That is the one nested acquisition, and every mutex taken inside
\* a handler or inside doReceive is released when the call has returned.
Held(th) == {m \in DOMAIN mutex : th \in mutex[m]}

Wanted(th) ==
    CASE pc[th] = "consume_lock" -> {"stoppedMutex"}
      [] pc[th] = "close_lock" /\ consumerThreadExists -> {"stoppedMutex"}
      [] pc[th] \in {"diag_lock", "close_err_lock", "recv_err_lock"}
         /\ consumerThreadExists -> {"stderrMutex"}
      [] pc[th] \in {"out_lock", "recv_out_lock"}
         /\ consumerThreadExists -> {"stdoutMutex"}
      [] debug /\ consumerThreadExists
         /\ pc[th] \in {"recv_call", "recv_dbg_received",
                        "recv_dbg_calculated", "recv_dbg_measured"}
         -> {"stderrMutex"}
      [] pc[th] = "consume_dbg_finishing" -> {"stderrMutex"}
      [] OTHER -> {}

WaitsFor(a, b) == \E m \in Wanted(a) : a # b /\ b \in mutex[m]

Waiting(th) == \E b \in Threads : WaitsFor(th, b)

\* The two places where a thread asks for stderrMutex holding stoppedMutex,
\* and where it is when it has both.
NestedWait(th) ==
    IF th = MainThread THEN pc[th] = "close_err_lock"
    ELSE pc[th] = "consume_dbg_finishing"

NestedHold(th) ==
    IF th = MainThread THEN pc[th] = "close_err_w"
    ELSE pc[th] = "consume_dbg_finishing_w"

C29_NoWaitCycle ==
    /\ \A a \in Threads :
          Wanted(a) # {} =>
              \A b \in Threads :
                  (WaitsFor(a, b) /\ Wanted(b) # {} /\ Waiting(b)) =>
                      /\ NestedWait(b)
                      /\ \A c \in Threads : WaitsFor(b, c) => ~Waiting(c)
    /\ \A th \in Threads :
          Held(th) # {} =>
              /\ Cardinality(Held(th)) = 2 =>
                    /\ NestedHold(th)
                    /\ Held(th) = {"stoppedMutex", "stderrMutex"}
              /\ Cardinality(Held(th)) <= 2
              /\ Wanted(th) # {} =>
                    /\ NestedWait(th)
                    /\ Held(th) = {"stoppedMutex"}
              /\ \/ pc[th] \in {"recv_write", "recv_spin", "recv_err_w",
                                 "recv_dbg_about_w", "recv_dbg_received_w",
                                 "recv_dbg_calculated_w",
                                 "recv_dbg_measured_w"}
                 \/ /\ th = MainThread
                    /\ pc[th] \in {"out_w", "diag_w", "close_set", "close_mq",
                                   "close_err_lock", "close_err_w",
                                   "close_kill", "close_ret"}
                 \/ /\ th \in Tasks
                    /\ pc[th] \in {"consume_check", "consume_dbg_finishing",
                                   "consume_dbg_finishing_w"}

\* A consumer thread writes the debug line of consume holding stoppedMutex
\* and stderrMutex, while another consumer thread waits for stderrMutex.
C29_Witness ==
    \E t, u \in Tasks :
        /\ pc[t] = "consume_dbg_finishing_w"
        /\ Held(t) = {"stoppedMutex", "stderrMutex"}
        /\ WaitsFor(u, t)

\* C21 (as claimed): a foreground receive that blocks on an empty queue, with
\* no consumer thread and nobody sending, is ended by close, and the session
\* then exits with closeHandler's result.
C21_BlockedReceiveEndsByClose ==
    (pc[MainThread] = "recv_blocked" /\ queue = <<>> /\ nthreads = 0)
        ~> (pc[MainThread] = "done" /\ exitCode = closeResult)

\* C26 (as claimed): for every priority of 'unsigned' and every size of
\* 'ssize_t' the prefix fits into the numbersMaxSize bytes before the
\* payload: numbersBegin is not before bufferBegin, and the prefix ends where
\* the payload begins.
C26_PrefixFits ==
    numbersBegin # <<>> =>
        /\ numbersBegin[1] >= 0
        /\ numbersBegin[1] + numbersExpectedSize(priority, msgSize)
              = numbersMaxSize


\* A step of thread th that belongs to a debug line: it takes the Lock on
\* stderrMutex for the line, or it writes the line and lets the Lock go.
DebugStep(th) ==
    /\ pc'[th] # pc[th]
    /\ \E l \in DebugLines : pc'[th] = l.w \/ pc[th] = l.w

\* What a user of the session can observe apart from stderr, and the state
\* the steps that produce it read: stdout, the results and the exit code, the
\* queue, the message a thread holds and how much of it is written, the flags.
Observable ==
    <<stdout, exitCode, results, commandResult, closeResult, input, queue,
      queueOpen, msg, written, line, rc, errno, diag, stopped,
      consumerThreadExists, consumerThread, nthreads, joined, faults>>

C25_Step ==
    /\ \A th \in Threads :
          DebugStep(th) =>
              /\ UNCHANGED Observable
              /\ stderr' \in {stderr, Append(stderr, "debug")}
              /\ \A u \in Threads \ {th} : pc'[u] = pc[u]
    /\ \A i \in DOMAIN stdout' : stdout'[i] # <<"debug">>
    /\ stderr' # stderr => stdout' = stdout
    /\ pc'[MainThread] = "done" =>
          exitCode' = IF FirstNonZero(results') # 0
                      THEN FirstNonZero(results') ELSE closeResult'

\* C25: with the debug option on, the steps that write the debug lines change
\* nothing but stderr, its mutex and the position of the thread that takes
\* them: stdout, the handlers' results, the queue and the flags are as the
\* same steps without the debug lines leave them, no debug line is on stdout,
\* and the exit code is the one the results give with the option off.
C25_DebugOnlyAddsStderr == [][C25_Step]_vars

\* A session with the option on that has printed a message and stopped a
\* consumer thread, with debug lines around the diagnostics on stderr.
C25_Witness ==
    /\ debug
    /\ pc[MainThread] = "done"
    /\ \E i \in DOMAIN stdout : stdout[i][1] = "msg"
    /\ \E t \in Tasks : pc[t] = "stopped"
    /\ Len(stderr) >= 3
====
